---- MODULE Spec2Model ----
(***************************************************************************)
(* Model of crow::CookieParser (include/crow/middlewares/cookie_parser.h): *)
(* the Cookie value type and Cookie::format, the request context (jar and  *)
(* cookies_to_add), and the before_handle / after_handle hooks.            *)
(*                                                                         *)
(* A std::string is a sequence of one-character strings.  Positions are    *)
(* 0-based as in the source: character i of s is s[i + 1].                 *)
(***************************************************************************)
EXTENDS Integers, Sequences, FiniteSets, TLC

VARIABLES
    pc,             \* where the request is in its lifecycle
    log,            \* the hooks invoked so far, in order
    req_headers,    \* values of the request's Cookie headers
    res_code,       \* response::code
    res_completed,  \* set by response::end()
    res_set_cookie, \* values of the Set-Cookie headers added to the response
    jar,            \* context::jar
    cookies_to_add, \* context::cookies_to_add
    cap,            \* capacity of the cookies_to_add vector
    buf,            \* identity of the vector's current storage
    refs,           \* Cookie& values the handler received from set_cookie
    cookies,        \* before_handle: local copy of the header value
    pos,            \* before_handle: scan position
    fault,          \* "none", or the error a string operation raised
    fuel,           \* operations the application handler still performs
    last,           \* per reference, the last argument the handler gave each setter
    probe           \* the Cookie whose format() built the request, if any

vars == <<pc, log, req_headers, res_code, res_completed, res_set_cookie, jar,
          cookies_to_add, cap, buf, refs, cookies, pos, fault, fuel, last, probe>>

(***************************************************************************)
(* Bounds of the model.                                                    *)
(***************************************************************************)
\* size_t is modelled SizeBits wide (arithmetic modulo 2^SizeBits)
SizeBits == 16
\* longest raw Cookie header value enumerated character by character
MaxLen == 5
\* most pairs in a generated well-formed header
MaxPairs == 2
\* most spaces after a ';' in a generated well-formed header
MaxSp == 1
\* longest key of a Cookie whose format() is fed back to the parser
MaxKeyLen == 1
\* longest value of a Cookie whose format() is fed back to the parser
MaxValLen == 2
\* most cookies the handler stages
MaxStaged == 2
\* handler operations in one request of the lifecycle specification
MaxOps == 3
\* setter calls on the single cookie of the Cookie specification
MaxSetterCalls == 8
\* most Cookie headers on a request
MaxHeaders == 2

(***************************************************************************)
(* Characters and std::string operations.                                  *)
(***************************************************************************)
DQ == "\""
SP == " "
TAB == "\t"
NUL == "\\0"
Plain == {"a", "b"}
Chars == Plain \cup {"=", ";", DQ, SP, TAB}

SizeMod == 2 ^ SizeBits
npos == SizeMod - 1

\* size_t subtraction
SubU(a, b) == (a - b) % SizeMod

Min(a, b) == IF a < b THEN a ELSE b

\* all strings over alphabet A of length lo..hi
Strings(A, lo, hi) == UNION {[1..n -> A] : n \in lo..hi}

\* std::string::find(ch, p)
find(s, ch, p) ==
    LET hits == {i \in 0..(Len(s) - 1) : i >= p /\ s[i + 1] = ch}
    IN  IF hits = {} THEN npos
        ELSE CHOOSE i \in hits : \A k \in hits : i <= k

\* std::string::substr(p, n) throws std::out_of_range when p > size()
SubstrThrows(s, p) == p > Len(s)

\* mutant of substr: the count is ignored
substr_ToEnd(s, p, n) ==
    IF p > Len(s) THEN <<>> ELSE SubSeq(s, p + 1, Len(s))

\* std::string::substr(p, n): the characters from p, at most n of them
substr(s, p, n) ==
    IF p > Len(s) THEN <<>>
    ELSE SubSeq(s, p + 1, p + Min(n, Len(s) - p))

\* std::string::operator[](i); s[size()] is the terminator, beyond it is undefined
At(s, i) ==
    IF i < Len(s) THEN s[i + 1]
    ELSE IF i = Len(s) THEN NUL
    ELSE "undefined"

\* the classification boost::trim uses (std::isspace)
IsSpace(c) == c \in {SP, TAB}

RECURSIVE TrimLeft(_)
TrimLeft(s) ==
    IF s # <<>> /\ IsSpace(Head(s)) THEN TrimLeft(Tail(s)) ELSE s

RECURSIVE TrimRight(_)
TrimRight(s) ==
    IF s # <<>> /\ IsSpace(s[Len(s)]) THEN TrimRight(SubSeq(s, 1, Len(s) - 1)) ELSE s

\* boost::trim
trim(s) == TrimRight(TrimLeft(s))

\* while (pos < cookies.size() && cookies[pos] == ' ') pos++;
RECURSIVE SkipSpaces(_, _)
SkipSpaces(s, p) ==
    IF p < Len(s) /\ At(s, p) = SP THEN SkipSpaces(s, p + 1) ELSE p

(***************************************************************************)
(* context::jar, an unordered_map<string, string>, as a function.          *)
(***************************************************************************)
EmptyJar == [k \in {} |-> <<>>]

\* mutant of emplace: an existing key is overwritten
emplace_Overwrite(j, name, value) ==
    [k \in DOMAIN j \cup {name} |-> IF k = name THEN value ELSE j[k]]

\* unordered_map::emplace: inserts only when the key is absent
emplace(j, name, value) ==
    IF name \in DOMAIN j THEN j
    ELSE [k \in DOMAIN j \cup {name} |-> IF k = name THEN value ELSE j[k]]

\* context::get_cookie
get_cookie(j, key) == IF key \in DOMAIN j THEN j[key] ELSE <<>>

(***************************************************************************)
(* One iteration of the parse loop of before_handle (lines 199-229).       *)
(* brk: the iteration left the loop by break.  fault: an operation of the  *)
(* iteration threw or read outside its string.                             *)
(***************************************************************************)
\* mutant of Unquote: only the leading quote is tested
Unquote_LeadingOnly(value) ==
    IF At(value, 0) = DQ
    THEN substr(value, 1, SubU(Len(value), 2))
    ELSE value

\* lines 216-219: the quote test and the stripping
Unquote(value) ==
    IF At(value, 0) = DQ /\ At(value, SubU(Len(value), 1)) = DQ
    THEN substr(value, 1, SubU(Len(value), 2))
    ELSE value

\* the reads of lines 216-219 that are out of range, if any
UnquoteFault(value) ==
    IF At(value, 0) = "undefined" THEN "undefined_read"
    ELSE IF At(value, 0) = DQ /\ At(value, SubU(Len(value), 1)) = "undefined"
         THEN "undefined_read"
    ELSE IF At(value, 0) = DQ /\ At(value, SubU(Len(value), 1)) = DQ
            /\ SubstrThrows(value, 1)
         THEN "out_of_range"
    ELSE "none"

\* mutant of ValueMissing: the end of the input is not noticed
ValueMissing_Never(c, p) == FALSE

\* lines 207-210: true when the input ended before a value began
ValueMissing(c, p) == p = Len(c)

ParseBody(c, p, j) ==
    LET pos_equal == find(c, "=", p) IN
    IF pos_equal = npos
    THEN [pos |-> p, jar |-> j, brk |-> TRUE, fault |-> "none"]
    ELSE
      LET rawname == substr(c, p, SubU(pos_equal, p))
          p2 == SkipSpaces(c, pos_equal + 1)
      IN
      IF SubstrThrows(c, p)
      THEN [pos |-> p, jar |-> j, brk |-> TRUE, fault |-> "out_of_range"]
      ELSE IF ValueMissing(c, p2)
      THEN [pos |-> p2, jar |-> j, brk |-> TRUE, fault |-> "none"]
      ELSE
        LET name == trim(rawname)
            pos_semicolon == find(c, ";", p2)
            rawvalue == substr(c, p2, SubU(pos_semicolon, p2))
        IN
        IF SubstrThrows(c, p2)
        THEN [pos |-> p2, jar |-> j, brk |-> TRUE, fault |-> "out_of_range"]
        ELSE
          LET value == trim(rawvalue)
              f == UnquoteFault(value)
          IN
          IF f # "none"
          THEN [pos |-> p2, jar |-> j, brk |-> TRUE, fault |-> f]
          ELSE
            LET j2 == emplace(j, name, Unquote(value)) IN
            IF pos_semicolon = npos
            THEN [pos |-> npos, jar |-> j2, brk |-> TRUE, fault |-> "none"]
            ELSE [pos |-> SkipSpaces(c, pos_semicolon + 1), jar |-> j2,
                  brk |-> FALSE, fault |-> "none"]

(***************************************************************************)
(* Cookie (lines 36-161).  A boost::optional is a record [set, val].       *)
(***************************************************************************)
\* a ptime, to the second
NoTime == [year |-> 1400, month |-> 1, day |-> 1, hours |-> 0, minutes |-> 0, seconds |-> 0]
Absent(v) == [set |-> FALSE, val |-> v]
Present(v) == [set |-> TRUE, val |-> v]

\* Cookie(key, value): the delegated default constructor, then the two assignments
NewCookie(key, value) ==
    [key_ |-> key, value_ |-> value,
     max_age_ |-> Absent(0), domain_ |-> <<>>, path_ |-> <<>>,
     secure_ |-> FALSE, httponly_ |-> FALSE,
     expires_at_ |-> Absent(NoTime), same_site_ |-> Absent("Strict")]

\* the setters, lines 94-146
expires(c, time) == [c EXCEPT !.expires_at_ = Present(time)]
max_age(c, age) == [c EXCEPT !.max_age_ = Present(age)]

\* C++ integer division and remainder truncate towards zero
TruncDiv(a, b) == IF a >= 0 THEN a \div b ELSE -((-a) \div b)
TruncRem(a, b) == a - b * TruncDiv(a, b)

\* a time_duration is its length in whole seconds; time_duration::seconds() is
\* the seconds field of its normalised hh:mm:ss form
DurationSeconds(dt) == TruncRem(dt, 60)

\* max_age(const time_duration&), lines 107-111
max_age_duration(c, dt) == [c EXCEPT !.max_age_ = Present(DurationSeconds(dt))]
domain(c, name) == [c EXCEPT !.domain_ = name]
path(c, p) == [c EXCEPT !.path_ = p]
secure(c) == [c EXCEPT !.secure_ = TRUE]
httponly(c) == [c EXCEPT !.httponly_ = TRUE]
same_site(c, ssp) == [c EXCEPT !.same_site_ = Present(ssp)]

(***************************************************************************)
(* Text written by operator<< in Cookie::format.                           *)
(***************************************************************************)
Digit(d) == <<"0", "1", "2", "3", "4", "5", "6", "7", "8", "9">>[d + 1]

\* operator<<(long long): decimal digits, '-' first when negative
RECURSIVE NatStr(_)
NatStr(n) == IF n < 10 THEN <<Digit(n)>> ELSE NatStr(n \div 10) \o <<Digit(n % 10)>>
IntStr(n) == IF n < 0 THEN <<"-">> \o NatStr(-n) ELSE NatStr(n)

\* a number zero-padded to w digits (%d %H %M %S: 2, %Y: 4)
RECURSIVE Pad(_, _)
Pad(str, w) == IF Len(str) < w THEN Pad(<<"0">> \o str, w) ELSE str

\* weekday of a Gregorian date, 0 = Sunday
DayOfWeek(y, m, d) ==
    LET a == (14 - m) \div 12
        yy == y - a
        mm == m + 12 * a - 2
    IN  (d + yy + (yy \div 4) - (yy \div 100) + (yy \div 400) + ((31 * mm) \div 12)) % 7

WeekdayNames ==
    << <<"S","u","n">>, <<"M","o","n">>, <<"T","u","e">>, <<"W","e","d">>,
       <<"T","h","u">>, <<"F","r","i">>, <<"S","a","t">> >>

MonthNames ==
    << <<"J","a","n">>, <<"F","e","b">>, <<"M","a","r">>, <<"A","p","r">>,
       <<"M","a","y">>, <<"J","u","n">>, <<"J","u","l">>, <<"A","u","g">>,
       <<"S","e","p">>, <<"O","c","t">>, <<"N","o","v">>, <<"D","e","c">> >>

\* a ptime through the facet "%a, %d %b %Y %H:%M:%S GMT"
HttpDate(t) ==
    WeekdayNames[DayOfWeek(t.year, t.month, t.day) + 1] \o <<",", " ">>
        \o Pad(NatStr(t.day), 2) \o <<" ">> \o MonthNames[t.month] \o <<" ">>
        \o Pad(NatStr(t.year), 4) \o <<" ">>
        \o Pad(NatStr(t.hours), 2) \o <<":">> \o Pad(NatStr(t.minutes), 2) \o <<":">>
        \o Pad(NatStr(t.seconds), 2) \o <<" ", "G", "M", "T">>

DIVIDER == <<";", " ">>
ExpiresLabel == <<"E","x","p","i","r","e","s","=">>
MaxAgeLabel == <<"M","a","x","-","A","g","e","=">>
DomainLabel == <<"D","o","m","a","i","n","=">>
PathLabel == <<"P","a","t","h","=">>
SecureLabel == <<"S","e","c","u","r","e">>
HttpOnlyLabel == <<"H","t","t","p","O","n","l","y">>
SameSiteLabel == <<"S","a","m","e","S","i","t","e","=">>

\* the switch of lines 77-88
SameSiteName(ssp) ==
    CASE ssp = "Strict" -> <<"S","t","r","i","c","t">>
      [] ssp = "Lax" -> <<"L","a","x">>
      [] ssp = "None" -> <<"N","o","n","e">>

\* mutant of format: HttpOnly is written before Secure
format_HttpOnlyFirst(c) ==
    LET s2 == c.key_ \o <<"=">> \o (IF c.value_ = <<>> THEN <<DQ, DQ>> ELSE c.value_)
        s3 == IF c.expires_at_.set
              THEN s2 \o DIVIDER \o ExpiresLabel \o HttpDate(c.expires_at_.val) ELSE s2
        s4 == IF c.max_age_.set
              THEN s3 \o DIVIDER \o MaxAgeLabel \o IntStr(c.max_age_.val) ELSE s3
        s5 == IF c.domain_ # <<>> THEN s4 \o DIVIDER \o DomainLabel \o c.domain_ ELSE s4
        s6 == IF c.path_ # <<>> THEN s5 \o DIVIDER \o PathLabel \o c.path_ ELSE s5
        s7 == IF c.httponly_ THEN s6 \o DIVIDER \o HttpOnlyLabel ELSE s6
        s8 == IF c.secure_ THEN s7 \o DIVIDER \o SecureLabel ELSE s7
    IN  IF c.same_site_.set
        THEN s8 \o DIVIDER \o SameSiteLabel \o SameSiteName(c.same_site_.val) ELSE s8

\* Cookie::format, lines 54-91: the stream after each statement
format(c) ==
    LET s1 == c.key_ \o <<"=">>
        s2 == s1 \o (IF c.value_ = <<>> THEN <<DQ, DQ>> ELSE c.value_)
        s3 == IF c.expires_at_.set
              THEN s2 \o DIVIDER \o ExpiresLabel \o HttpDate(c.expires_at_.val) ELSE s2
        s4 == IF c.max_age_.set
              THEN s3 \o DIVIDER \o MaxAgeLabel \o IntStr(c.max_age_.val) ELSE s3
        s5 == IF c.domain_ # <<>> THEN s4 \o DIVIDER \o DomainLabel \o c.domain_ ELSE s4
        s6 == IF c.path_ # <<>> THEN s5 \o DIVIDER \o PathLabel \o c.path_ ELSE s5
        s7 == IF c.secure_ THEN s6 \o DIVIDER \o SecureLabel ELSE s6
        s8 == IF c.httponly_ THEN s7 \o DIVIDER \o HttpOnlyLabel ELSE s7
        s9 == IF c.same_site_.set
              THEN s8 \o DIVIDER \o SameSiteLabel \o SameSiteName(c.same_site_.val) ELSE s8
    IN  s9

(***************************************************************************)
(* Inputs.                                                                 *)
(***************************************************************************)
Times ==
    {[year |-> 2021, month |-> 6, day |-> 9, hours |-> 10, minutes |-> 18, seconds |-> 14],
     [year |-> 1970, month |-> 1, day |-> 1, hours |-> 0, minutes |-> 0, seconds |-> 0]}
Ages == {60, -1}
Durations == {120, 45}
Domains == {<<>>, <<"d">>}
Paths == {<<>>, <<"/">>}
SameSitePolicy == {"Strict", "Lax", "None"}
CookieKeys == {<<"k">>, <<"j">>}
CookieValues == {<<>>, <<"v">>}

\* name=value pairs without special characters
Tokens == Strings(Plain, 1, 2)
PairText(pr) == pr[1] \o <<"=">> \o pr[2]
Spaces(n) == [i \in 1..n |-> SP]

\* pairs joined by ';' and sp[i] spaces
RECURSIVE JoinPairs(_, _)
JoinPairs(prs, sp) ==
    IF Len(prs) = 1 THEN PairText(prs[1])
    ELSE PairText(prs[1]) \o <<";">> \o Spaces(sp[1]) \o JoinPairs(Tail(prs), Tail(sp))

WellFormedHeaders ==
    UNION {{JoinPairs(prs, sp) : prs \in [1..n -> Tokens \X Plain], sp \in [1..(n - 1) -> 0..MaxSp]}
           : n \in 1..MaxPairs}

RawHeaders == Strings(Chars, 0, MaxLen)

\* requests carrying several Cookie headers
RepeatedHeaders ==
    UNION {[1..n -> {<<"a", "=", "b">>, <<"b", "=", "a">>}] : n \in 2..MaxHeaders}

NoProbe == Absent(NewCookie(<<>>, <<>>))
NoLast ==
    [expires |-> Absent(NoTime), max_age |-> Absent(0), domain |-> Absent(<<>>),
     path |-> Absent(<<>>), secure |-> FALSE, httponly |-> FALSE,
     same_site |-> Absent("Strict")]

(***************************************************************************)
(* Initial states.                                                         *)
(***************************************************************************)
\* a request before the middleware has seen it; response::code starts as 200
Fresh ==
    /\ pc = "NotStarted"
    /\ log = <<>>
    /\ res_code = 200
    /\ res_completed = FALSE
    /\ res_set_cookie = <<>>
    /\ jar = EmptyJar
    /\ cookies_to_add = <<>>
    /\ cap = 0
    /\ buf = 0
    /\ refs = <<>>
    /\ cookies = <<>>
    /\ pos = 0
    /\ fault = "none"
    /\ last = <<>>

\* the lifecycle of one request
Init ==
    /\ Fresh
    /\ req_headers \in {<<>>, << <<"a", "=", "b">> >>, << <<"a", "=", "b", ";">> >>}
                         \cup RepeatedHeaders
    /\ fuel = MaxOps
    /\ probe = NoProbe

\* before_handle on any request
InitParse ==
    /\ Fresh
    /\ fuel = 0
    /\ \/ /\ req_headers \in {<<>>} \cup RepeatedHeaders
             \cup {<<h>> : h \in RawHeaders \cup WellFormedHeaders}
          /\ probe = NoProbe
       \/ \E k \in Strings(Chars, 0, MaxKeyLen), v \in Strings(Chars, 0, MaxValLen) :
            /\ probe = Present(NewCookie(k, v))
            /\ req_headers = <<format(NewCookie(k, v))>>

(***************************************************************************)
(* before_handle, lines 185-230.                                           *)
(***************************************************************************)
\* mutant of BeforeHandle: only three or more Cookie headers are rejected
BeforeHandle_CountOverTwo ==
    /\ pc = "NotStarted"
    /\ log' = Append(log, "before_handle")
    /\ LET count == Len(req_headers) IN
       IF count = 0
       THEN /\ pc' = "BeforeRan"
            /\ UNCHANGED <<res_code, res_completed, cookies, pos>>
       ELSE IF count > 2
       THEN /\ res_code' = 400
            /\ res_completed' = TRUE
            /\ pc' = "BeforeRan"
            /\ UNCHANGED <<cookies, pos>>
       ELSE /\ cookies' = req_headers[1]
            /\ pos' = 0
            /\ pc' = "Parsing"
            /\ UNCHANGED <<res_code, res_completed>>
    /\ UNCHANGED <<req_headers, res_set_cookie, jar, cookies_to_add, cap, buf, refs,
                   fault, fuel, last, probe>>

\* mutant of BeforeHandle: the status is set but res.end() is not called
BeforeHandle_NoEnd ==
    /\ pc = "NotStarted"
    /\ log' = Append(log, "before_handle")
    /\ LET count == Len(req_headers) IN
       IF count = 0
       THEN /\ pc' = "BeforeRan"
            /\ UNCHANGED <<res_code, res_completed, cookies, pos>>
       ELSE IF count > 1
       THEN /\ res_code' = 400
            /\ pc' = "BeforeRan"
            /\ UNCHANGED <<res_completed, cookies, pos>>
       ELSE /\ cookies' = req_headers[1]
            /\ pos' = 0
            /\ pc' = "Parsing"
            /\ UNCHANGED <<res_code, res_completed>>
    /\ UNCHANGED <<req_headers, res_set_cookie, jar, cookies_to_add, cap, buf, refs,
                   fault, fuel, last, probe>>

\* lines 188-198: the header count, the early returns, the copy of the header
BeforeHandle ==
    /\ pc = "NotStarted"
    /\ log' = Append(log, "before_handle")
    /\ LET count == Len(req_headers) IN
       IF count = 0
       THEN /\ pc' = "BeforeRan"
            /\ UNCHANGED <<res_code, res_completed, cookies, pos>>
       ELSE IF count > 1
       THEN /\ res_code' = 400
            /\ res_completed' = TRUE
            /\ pc' = "BeforeRan"
            /\ UNCHANGED <<cookies, pos>>
       ELSE /\ cookies' = req_headers[1]
            /\ pos' = 0
            /\ pc' = "Parsing"
            /\ UNCHANGED <<res_code, res_completed>>
    /\ UNCHANGED <<req_headers, res_set_cookie, jar, cookies_to_add, cap, buf, refs,
                   fault, fuel, last, probe>>

\* lines 199-229: one iteration of the loop
ParseIter ==
    /\ pc = "Parsing"
    /\ pos < Len(cookies)
    /\ LET r == ParseBody(cookies, pos, jar) IN
         /\ pos' = r.pos
         /\ jar' = r.jar
         /\ fault' = r.fault
         /\ pc' = IF r.brk THEN "BeforeRan" ELSE "Parsing"
    /\ UNCHANGED <<log, req_headers, res_code, res_completed, res_set_cookie,
                   cookies_to_add, cap, buf, refs, cookies, fuel, last, probe>>

\* line 199: the loop condition fails and before_handle returns
ParseDone ==
    /\ pc = "Parsing"
    /\ ~(pos < Len(cookies))
    /\ pc' = "BeforeRan"
    /\ UNCHANGED <<log, req_headers, res_code, res_completed, res_set_cookie, jar,
                   cookies_to_add, cap, buf, refs, cookies, pos, fault, fuel, last, probe>>

(***************************************************************************)
(* The driver: which hook it calls next.                                   *)
(***************************************************************************)
\* the handler runs after before_handle unless the response was ended
HandlerAllowed == pc = "BeforeRan" /\ ~res_completed

\* after_handle runs after the handler, and also when before_handle ended the response
AfterAllowed == pc = "HandlerRan" \/ (pc = "BeforeRan" /\ res_completed)

HandlerStart ==
    /\ HandlerAllowed
    /\ pc' = "Handler"
    /\ log' = Append(log, "handler")
    /\ UNCHANGED <<req_headers, res_code, res_completed, res_set_cookie, jar,
                   cookies_to_add, cap, buf, refs, cookies, pos, fault, fuel, last, probe>>

HandlerReturn ==
    /\ pc = "Handler"
    /\ pc' = "HandlerRan"
    /\ UNCHANGED <<log, req_headers, res_code, res_completed, res_set_cookie, jar,
                   cookies_to_add, cap, buf, refs, cookies, pos, fault, fuel, last, probe>>

(***************************************************************************)
(* The handler's use of the context: set_cookie and the Cookie setters.    *)
(***************************************************************************)
\* capacities vector::emplace_back may choose when it must grow
\* (at least one more than the size, at most double)
GrownCapacities(n) == (n + 1)..(IF n = 0 THEN 1 ELSE 2 * n)

\* context::set_cookie, lines 177-182
SetCookie ==
    /\ pc = "Handler"
    /\ fuel > 0
    /\ Len(cookies_to_add) < MaxStaged
    /\ \E key \in CookieKeys, value \in CookieValues :
         /\ cookies_to_add' = Append(cookies_to_add, NewCookie(key, value))
         /\ IF Len(cookies_to_add) = cap
            THEN /\ cap' \in GrownCapacities(cap)
                 /\ buf' = buf + 1
            ELSE UNCHANGED <<cap, buf>>
         /\ refs' = Append(refs, [idx |-> Len(cookies_to_add) + 1, buf |-> buf'])
         /\ last' = Append(last, NoLast)
    /\ fuel' = fuel - 1
    /\ UNCHANGED <<pc, log, req_headers, res_code, res_completed, res_set_cookie, jar,
                   cookies, pos, fault, probe>>

\* Where a write through reference r lands.  A reference into the current
\* storage reaches its element.  A reference into storage the vector has
\* released is dangling: the write may be lost (0), may hit any live element
\* when the memory was reused, or may abort the process (-1).
Landings(r) ==
    IF refs[r].buf = buf THEN {refs[r].idx}
    ELSE {0, -1} \cup (1..Len(cookies_to_add))

\* a setter called through reference r: written[i] is element i after the
\* setter ran on it, noted is the record of the handler's calls through r
Through(r, written, noted) ==
    /\ pc = "Handler"
    /\ fuel > 0
    /\ fuel' = fuel - 1
    /\ last' = [last EXCEPT ![r] = noted]
    /\ \E at \in Landings(r) :
         /\ cookies_to_add' =
              IF at >= 1 THEN [cookies_to_add EXCEPT ![at] = written[at]] ELSE cookies_to_add
         /\ pc' = IF at = -1 THEN "Aborted" ELSE pc
    /\ UNCHANGED <<log, req_headers, res_code, res_completed, res_set_cookie, jar,
                   cap, buf, refs, cookies, pos, fault, probe>>

CallExpires ==
    \E r \in 1..Len(refs), time \in Times :
        Through(r, [i \in DOMAIN cookies_to_add |-> expires(cookies_to_add[i], time)],
                   [last[r] EXCEPT !.expires = Present(time)])

CallMaxAge ==
    \E r \in 1..Len(refs), age \in Ages :
        Through(r, [i \in DOMAIN cookies_to_add |-> max_age(cookies_to_add[i], age)],
                   [last[r] EXCEPT !.max_age = Present(age)])

CallMaxAgeDuration ==
    \E r \in 1..Len(refs), dt \in Durations :
        Through(r, [i \in DOMAIN cookies_to_add |-> max_age_duration(cookies_to_add[i], dt)],
                   [last[r] EXCEPT !.max_age = Present(dt)])

CallDomain ==
    \E r \in 1..Len(refs), name \in Domains :
        Through(r, [i \in DOMAIN cookies_to_add |-> domain(cookies_to_add[i], name)],
                   [last[r] EXCEPT !.domain = Present(name)])

CallPath ==
    \E r \in 1..Len(refs), p \in Paths :
        Through(r, [i \in DOMAIN cookies_to_add |-> path(cookies_to_add[i], p)],
                   [last[r] EXCEPT !.path = Present(p)])

CallSecure ==
    \E r \in 1..Len(refs) :
        Through(r, [i \in DOMAIN cookies_to_add |-> secure(cookies_to_add[i])],
                   [last[r] EXCEPT !.secure = TRUE])

CallHttpOnly ==
    \E r \in 1..Len(refs) :
        Through(r, [i \in DOMAIN cookies_to_add |-> httponly(cookies_to_add[i])],
                   [last[r] EXCEPT !.httponly = TRUE])

CallSameSite ==
    \E r \in 1..Len(refs), ssp \in SameSitePolicy :
        Through(r, [i \in DOMAIN cookies_to_add |-> same_site(cookies_to_add[i], ssp)],
                   [last[r] EXCEPT !.same_site = Present(ssp)])

(***************************************************************************)
(* after_handle, lines 232-238.                                            *)
(***************************************************************************)
\* mutant of AddSetCookie: the cookies are visited back to front
RECURSIVE AddSetCookie_Reversed(_, _)
AddSetCookie_Reversed(headers, cs) ==
    IF cs = <<>> THEN headers
    ELSE AddSetCookie_Reversed(Append(headers, format(cs[Len(cs)])), SubSeq(cs, 1, Len(cs) - 1))

\* the range-for: one add_header per element, front to back
RECURSIVE AddSetCookie(_, _)
AddSetCookie(headers, cs) ==
    IF cs = <<>> THEN headers
    ELSE AddSetCookie(Append(headers, format(Head(cs))), Tail(cs))

AfterHandle ==
    /\ AfterAllowed
    /\ res_set_cookie' = AddSetCookie(res_set_cookie, cookies_to_add)
    /\ pc' = "AfterRan"
    /\ log' = Append(log, "after_handle")
    /\ UNCHANGED <<req_headers, res_code, res_completed, jar, cookies_to_add, cap, buf,
                   refs, cookies, pos, fault, fuel, last, probe>>

(***************************************************************************)
(* Specifications.                                                         *)
(***************************************************************************)
Setters ==
    \/ CallExpires
    \/ CallMaxAge
    \/ CallMaxAgeDuration
    \/ CallDomain
    \/ CallPath
    \/ CallSecure
    \/ CallHttpOnly
    \/ CallSameSite

Next ==
    \/ BeforeHandle
    \/ ParseIter
    \/ ParseDone
    \/ HandlerStart
    \/ SetCookie
    \/ Setters
    \/ HandlerReturn
    \/ AfterHandle

\* one request, from before_handle to after_handle
Spec == Init /\ [][Next]_vars

NextParse ==
    \/ BeforeHandle
    \/ ParseIter
    \/ ParseDone

\* before_handle alone, on every request of the input sets
SpecParse == InitParse /\ [][NextParse]_vars

\* a handler that has staged one cookie and goes on to configure it
InitCookie ==
    /\ pc = "Handler"
    /\ log = <<"before_handle", "handler">>
    /\ req_headers = <<>>
    /\ res_code = 200
    /\ res_completed = FALSE
    /\ res_set_cookie = <<>>
    /\ jar = EmptyJar
    /\ \E key \in CookieKeys, value \in CookieValues :
         cookies_to_add = <<NewCookie(key, value)>>
    /\ cap = 1
    /\ buf = 1
    /\ refs = <<[idx |-> 1, buf |-> 1]>>
    /\ cookies = <<>>
    /\ pos = 0
    /\ fault = "none"
    /\ fuel = MaxSetterCalls
    /\ last = <<NoLast>>
    /\ probe = NoProbe

NextCookie ==
    \/ Setters
    \/ HandlerReturn
    \/ AfterHandle

\* one Cookie under every sequence of setter calls, then formatted
SpecCookie == InitCookie /\ [][NextCookie]_vars

(***************************************************************************)
(* Properties of before_handle, checked under SpecParse.                   *)
(***************************************************************************)
\* the one Cookie header of the request, when there is exactly one
OneHeader == Len(req_headers) = 1
Header == req_headers[1]

IsPlainChar(c) == c \notin {"=", ";", DQ, SP, TAB}

\* the pieces of s between occurrences of ch
RECURSIVE SplitOn(_, _)
SplitOn(s, ch) ==
    IF \A i \in 1..Len(s) : s[i] # ch THEN <<s>>
    ELSE LET i == CHOOSE i \in 1..Len(s) : s[i] = ch /\ \A k \in 1..(i - 1) : s[k] # ch
         IN  <<SubSeq(s, 1, i - 1)>> \o SplitOn(SubSeq(s, i + 1, Len(s)), ch)

RECURSIVE DropSpaces(_)
DropSpaces(s) == IF s # <<>> /\ Head(s) = SP THEN DropSpaces(Tail(s)) ELSE s

\* the pairs of a header as written: the text between the ';', less the spaces
\* that follow a ';'
Segments(h) ==
    LET raw == SplitOn(h, ";")
    IN  [i \in 1..Len(raw) |-> IF i = 1 THEN raw[i] ELSE DropSpaces(raw[i])]

\* name=value with a non-empty name and value free of special characters
IsSimplePair(seg) ==
    \E i \in 2..(Len(seg) - 1) :
        /\ seg[i] = "="
        /\ \A k \in (1..Len(seg)) \ {i} : IsPlainChar(seg[k])

EqAt(seg) == CHOOSE i \in 1..Len(seg) : seg[i] = "="
NameOf(seg) == SubSeq(seg, 1, EqAt(seg) - 1)
ValueOf(seg) == SubSeq(seg, EqAt(seg) + 1, Len(seg))

WellFormed(h) == \A i \in 1..Len(Segments(h)) : IsSimplePair(Segments(h)[i])

DistinctNames(h) ==
    \A i, k \in 1..Len(Segments(h)) :
        i # k => NameOf(Segments(h)[i]) # NameOf(Segments(h)[k])

\* the mapping a well-formed header with distinct names denotes
Denoted(h) ==
    LET segs == Segments(h)
        names == {NameOf(segs[i]) : i \in 1..Len(segs)}
    IN  [n \in names |-> ValueOf(segs[CHOOSE i \in 1..Len(segs) : NameOf(segs[i]) = n])]

\* C2: a request with exactly one Cookie header, a list of n >= 1 pairs
\* name=value with distinct names, non-empty names and values without '=', ';',
\* double quote or whitespace, separated by ';' and optional spaces, leaves the
\* jar equal to exactly the mapping name -> value.
C2_WellFormedParsed ==
    (pc = "BeforeRan" /\ OneHeader /\ WellFormed(Header) /\ DistinctNames(Header))
        => jar = Denoted(Header)

C2_Witness ==
    /\ pc = "BeforeRan"
    /\ OneHeader
    /\ WellFormed(Header)
    /\ DistinctNames(Header)
    /\ Len(Segments(Header)) = 2
    /\ Cardinality(DOMAIN jar) = 2
    /\ \E i \in 1..Len(Header) : Header[i] = SP

\* the value of the first pair of a well-formed header that carries name n
FirstValue(h, n) ==
    LET segs == Segments(h)
        first == CHOOSE i \in 1..Len(segs) :
                    /\ NameOf(segs[i]) = n
                    /\ \A k \in 1..(i - 1) : NameOf(segs[k]) # n
    IN  ValueOf(segs[first])

\* C3: while one Cookie header is parsed, a name once inserted keeps its
\* value for the rest of the parse, and when the parse of a list of simple
\* pairs ends, every name holds the value of its first occurrence.
C3_FirstWriteWins ==
    [][/\ pc = "Parsing" =>
            \A n \in DOMAIN jar : n \in DOMAIN jar' /\ jar'[n] = jar[n]
       /\ (pc = "Parsing" /\ pc' = "BeforeRan" /\ WellFormed(Header)) =>
            \A n \in DOMAIN jar' : jar'[n] = FirstValue(Header, n)]_vars

C3_Witness ==
    /\ pc = "BeforeRan"
    /\ OneHeader
    /\ WellFormed(Header)
    /\ ~DistinctNames(Header)
    /\ ValueOf(Segments(Header)[1]) # ValueOf(Segments(Header)[2])
    /\ NameOf(Segments(Header)[1]) = NameOf(Segments(Header)[2])
    /\ jar[NameOf(Segments(Header)[1])] = ValueOf(Segments(Header)[1])

\* the trimmed value text of the pair the iteration at position p reads
IterValue(c, p) ==
    LET start == SkipSpaces(c, find(c, "=", p) + 1)
        stop == Min(find(c, ";", start), Len(c))
    IN  trim(SubSeq(c, start + 1, stop))

\* strip one quote at each end only from a value wrapped in a pair of them
QuoteRule(v) ==
    IF Len(v) >= 2 /\ v[1] = DQ /\ v[Len(v)] = DQ THEN SubSeq(v, 2, Len(v) - 1) ELSE v

\* C4: for every parsed pair, the stored value is the trimmed value with one
\* leading and one trailing double quote removed only when it is wrapped in a
\* pair of double quotes (two distinct characters); a value with a quote at
\* one end only, a single double quote and an empty value are stored unchanged.
C4_QuotePairOnly ==
    [][(pc = "Parsing" /\ DOMAIN jar' # DOMAIN jar) =>
          \A n \in DOMAIN jar' \ DOMAIN jar : jar'[n] = QuoteRule(IterValue(cookies, pos))]_vars

\* C6: before_handle sets the status to 400 and finishes the response exactly
\* when the request carries two or more Cookie headers; then the parser is not
\* run and the jar stays empty; with at most one Cookie header the status and
\* the finished flag are untouched, and with none the jar stays empty.
C6_RepeatedHeaderRejected ==
    /\ (pc # "NotStarted" /\ Len(req_headers) >= 2) =>
          /\ res_code = 400
          /\ res_completed
          /\ pc # "Parsing"
          /\ cookies = <<>>
          /\ jar = EmptyJar
    /\ Len(req_headers) <= 1 => (res_code = 200 /\ ~res_completed)
    /\ pc = "NotStarted" => (res_code = 200 /\ ~res_completed)
    /\ Len(req_headers) = 0 => jar = EmptyJar

C6_Witness ==
    /\ pc = "BeforeRan"
    /\ Len(req_headers) = 2
    /\ res_code = 400
    /\ res_completed

\* key and value that survive the trip through format() and the parser
RoundTripSafe(key, value) ==
    /\ \A i \in 1..Len(key) : key[i] # "="
    /\ trim(key) = key
    /\ \A i \in 1..Len(value) : value[i] # ";"
    /\ trim(value) = value
    /\ ~(value # <<>> /\ value[1] = DQ /\ value[Len(value)] = DQ)

\* C8 as stated: for any Cookie built from a key and a value only, parsing
\* its format() as the one Cookie header gives get_cookie(key) = value.
C8_RoundTripAny ==
    (pc = "BeforeRan" /\ probe.set)
        => get_cookie(jar, probe.val.key_) = probe.val.value_

\* C8, amended: the round trip holds when the key has no '=' and no leading
\* or trailing whitespace, and the value has no ';', no leading or trailing
\* whitespace, and does not both begin and end with a double quote.
C8_RoundTripSafe ==
    (pc = "BeforeRan" /\ probe.set /\ RoundTripSafe(probe.val.key_, probe.val.value_))
        => get_cookie(jar, probe.val.key_) = probe.val.value_

C8_Witness ==
    /\ pc = "BeforeRan"
    /\ probe.set
    /\ RoundTripSafe(probe.val.key_, probe.val.value_)
    /\ Len(probe.val.value_) = 2
    /\ probe.val.key_ # <<>>
    /\ jar[probe.val.key_] = probe.val.value_

\* an iteration of the parse loop is about to run
Iterating == pc = "Parsing" /\ pos < Len(cookies)

\* no '=' at or after the scan position
NoEqualLeft == \A i \in (pos + 1)..Len(cookies) : cookies[i] # "="

\* there is a '=' at or after the scan position and only spaces follow it
ValueCutOff ==
    /\ ~NoEqualLeft
    /\ \A i \in (find(cookies, "=", pos) + 2)..Len(cookies) : cookies[i] = SP

\* what C10 says of an iteration besides the movement of the scan position
IterationSafe ==
    /\ fault' = "none"
    /\ pc' = "Parsing" => pos' <= Len(cookies)
    /\ (NoEqualLeft \/ ValueCutOff) => (jar' = jar /\ pc' = "BeforeRan")
    /\ \A n \in DOMAIN jar : n \in DOMAIN jar' /\ jar'[n] = jar[n]

\* C10 as stated: the parse loop ends without an error on every header; the
\* scan position strictly increases in every iteration, nothing is read past
\* the end of a string, a trailing fragment without '=' and a trailing pair
\* whose value is cut off by the end of the input are discarded, and the
\* pairs inserted before remain.
C10_EveryIterationAdvances ==
    [][Iterating => (IterationSafe /\ pos' > pos)]_vars

\* C10, amended: as stated, except that the iteration that finds no '=' left
\* leaves the loop without moving the scan position; every other iteration
\* strictly increases it.
C10_ParseLoopSafe ==
    [][Iterating => (IterationSafe /\ (pos' > pos \/ (NoEqualLeft /\ pos' = pos)))]_vars

C10_Witness ==
    /\ pc = "BeforeRan"
    /\ OneHeader
    /\ Len(cookies) = MaxLen
    /\ Cardinality(DOMAIN jar) = 1
    /\ pos < Len(cookies)
    /\ pos > 0
    /\ NoEqualLeft
    /\ fault = "none"

(***************************************************************************)
(* Properties of Cookie::format, checked under SpecCookie.                 *)
(***************************************************************************)
ExpiresName == <<"E","x","p","i","r","e","s">>
MaxAgeName == <<"M","a","x","-","A","g","e">>
DomainName == <<"D","o","m","a","i","n">>
PathName == <<"P","a","t","h">>
SecureName == <<"S","e","c","u","r","e">>
HttpOnlyName == <<"H","t","t","p","O","n","l","y">>
SameSiteName_ == <<"S","a","m","e","S","i","t","e">>

\* the order the attributes must appear in
AttrOrder ==
    <<ExpiresName, MaxAgeName, DomainName, PathName, SecureName, HttpOnlyName, SameSiteName_>>

\* whether the setter calls made so far leave attribute a set
SetByCalls(n, a) ==
    CASE a = ExpiresName -> n.expires.set
      [] a = MaxAgeName -> n.max_age.set
      [] a = DomainName -> n.domain.set /\ n.domain.val # <<>>
      [] a = PathName -> n.path.set /\ n.path.val # <<>>
      [] a = SecureName -> n.secure
      [] a = HttpOnlyName -> n.httponly
      [] a = SameSiteName_ -> n.same_site.set

\* whether the fields of cookie c have attribute a set
SetInFields(c, a) ==
    CASE a = ExpiresName -> c.expires_at_.set
      [] a = MaxAgeName -> c.max_age_.set
      [] a = DomainName -> c.domain_ # <<>>
      [] a = PathName -> c.path_ # <<>>
      [] a = SecureName -> c.secure_
      [] a = HttpOnlyName -> c.httponly_
      [] a = SameSiteName_ -> c.same_site_.set

\* the text of attribute a, from the fields of cookie c
AttrText(c, a) ==
    CASE a = ExpiresName -> a \o <<"=">> \o HttpDate(c.expires_at_.val)
      [] a = MaxAgeName -> a \o <<"=">> \o IntStr(c.max_age_.val)
      [] a = DomainName -> a \o <<"=">> \o c.domain_
      [] a = PathName -> a \o <<"=">> \o c.path_
      [] a = SecureName -> a
      [] a = HttpOnlyName -> a
      [] a = SameSiteName_ -> a \o <<"=">> \o SameSiteName(c.same_site_.val)

\* the pieces of s between occurrences of "; "
RECURSIVE SplitOnDivider(_)
SplitOnDivider(s) ==
    LET cuts == {i \in 1..(Len(s) - 1) : s[i] = ";" /\ s[i + 1] = SP}
    IN  IF cuts = {} THEN <<s>>
        ELSE LET i == CHOOSE i \in cuts : \A k \in cuts : i <= k
             IN  <<SubSeq(s, 1, i - 1)>> \o SplitOnDivider(SubSeq(s, i + 2, Len(s)))

\* the name of an attribute segment: the text before its '=', if it has one
SegmentName(seg) == SplitOn(seg, "=")[1]

RECURSIVE JoinAttrs(_, _)
JoinAttrs(c, names) ==
    IF names = <<>> THEN <<>>
    ELSE DIVIDER \o AttrText(c, Head(names)) \o JoinAttrs(c, Tail(names))

\* key=value with the attributes set in the fields of c, in AttrOrder
Rendering(c) ==
    c.key_ \o <<"=">> \o (IF c.value_ = <<>> THEN <<DQ, DQ>> ELSE c.value_)
        \o JoinAttrs(c, SelectSeq(AttrOrder, LAMBDA a : SetInFields(c, a)))

\* C1: after any sequence of setter calls, format() is key, '=', the value (or
\* "" when it is empty), then exactly the attributes that are set, each after
\* "; ", in the order Expires, Max-Age, Domain, Path, Secure, HttpOnly,
\* SameSite; it is determined by the final field values alone.
C1_FormatOrder ==
    (pc = "AfterRan" /\ Len(cookies_to_add) = 1) =>
        LET c == cookies_to_add[1]
            out == res_set_cookie[1]
            segs == SplitOnDivider(out)
        IN  /\ segs[1] = c.key_ \o <<"=">> \o (IF c.value_ = <<>> THEN <<DQ, DQ>> ELSE c.value_)
            /\ [i \in 1..(Len(segs) - 1) |-> SegmentName(segs[i + 1])]
                 = SelectSeq(AttrOrder, LAMBDA a : SetByCalls(last[1], a))
            /\ out = Rendering(c)

C1_Witness ==
    /\ pc = "AfterRan"
    /\ Len(cookies_to_add) = 1
    /\ \A a \in {AttrOrder[i] : i \in 1..Len(AttrOrder)} : SetByCalls(last[1], a)
    /\ cookies_to_add[1].value_ = <<>>
    /\ Len(SplitOnDivider(res_set_cookie[1])) = 8

\* C5: both max_age overloads write the same field consistently: max_age(d)
\* for a duration d stores the total length of d in whole seconds, so format()
\* emits the Max-Age that max_age(n) with n = the total seconds of d gives.
C5_DurationTotalSeconds ==
    (pc = "AfterRan" /\ Len(cookies_to_add) = 1 /\ last[1].max_age.set) =>
        res_set_cookie[1] = format(max_age(cookies_to_add[1], last[1].max_age.val))

(***************************************************************************)
(* Properties of the request lifecycle, checked under Spec.                *)
(***************************************************************************)
\* C7: after any set_cookie calls (the same name several times included) and
\* setter calls on the returned cookies, after_handle appends exactly one
\* Set-Cookie header per staged cookie, the i-th being format() of the i-th
\* staged cookie, duplicates kept, and leaves cookies_to_add as it was.
C7_OneHeaderPerStagedCookie ==
    [][(pc # "AfterRan" /\ pc' = "AfterRan") =>
          /\ cookies_to_add' = cookies_to_add
          /\ Len(cookies_to_add) = Len(refs)
          /\ res_set_cookie' =
               res_set_cookie \o [i \in 1..Len(cookies_to_add) |-> format(cookies_to_add[i])]
          /\ Len(res_set_cookie') = Len(refs)]_vars

C7_Witness ==
    /\ pc = "AfterRan"
    /\ Len(cookies_to_add) = 2
    /\ cookies_to_add[1].key_ = cookies_to_add[2].key_
    /\ cookies_to_add[1].secure_
    /\ ~cookies_to_add[2].secure_
    /\ res_set_cookie = <<format(cookies_to_add[1]), format(cookies_to_add[2])>>

HookOrders ==
    {<<>>, <<"before_handle">>, <<"before_handle", "handler">>,
     <<"before_handle", "handler", "after_handle">>, <<"before_handle", "after_handle">>}

\* C9: for one request the hooks run in the order before_handle, handler,
\* after_handle, each at most once; when before_handle finishes the response
\* early (two or more Cookie headers) the handler is never invoked, yet
\* after_handle is still invoked once afterwards and completes without error.
C9_HookOrder ==
    /\ log \in HookOrders
    /\ Len(req_headers) >= 2 => \A i \in 1..Len(log) : log[i] # "handler"
    /\ (pc = "BeforeRan" /\ Len(req_headers) >= 2) =>
          (res_completed /\ ENABLED AfterHandle /\ ~ENABLED HandlerStart)
    /\ (pc = "AfterRan" /\ Len(req_headers) >= 2) =>
          (log = <<"before_handle", "after_handle">> /\ fault = "none"
           /\ res_code = 400 /\ res_set_cookie = <<>>)
    /\ log = <<"before_handle", "after_handle">> => Len(req_headers) >= 2

C9_Witness ==
    /\ pc = "AfterRan"
    /\ Len(req_headers) >= 2
    /\ log = <<"before_handle", "after_handle">>
    /\ res_code = 400
====
